---- MODULE Spec2Model ----
(***************************************************************************)
(* Model of homework.py: the fitness-tracker calculators (Training and its *)
(* subclasses Running, SportsWalking, Swimming), the InfoMessage           *)
(* formatter, the dispatcher read_package and the driver loop under        *)
(* __main__.                                                               *)
(*                                                                         *)
(* Python floats are modelled as exact rationals [n, d] in lowest terms,   *)
(* d > 0.  The binary rounding error of a float (a relative error of about *)
(* 1e-16 per operation) is not modelled; where it could decide an outcome  *)
(* (a value exactly half way between two 3-digit renderings) the model     *)
(* allows both outcomes.  A value with d = 0 stands for "the expression    *)
(* raised ZeroDivisionError".                                              *)
(***************************************************************************)
EXTENDS Integers, Sequences, FiniteSets, TLC

VARIABLES
    packages,   \* the driver's input table: a sequence of <<code, data>>
    idx,        \* position of the for loop in packages (1-based)
    pc,         \* position of the driver: "read", "main", "done", "crashed"
    training,   \* the module-level name `training`: a calculator or None
    stdout,     \* the lines printed so far
    exc,        \* the exception that ended the program, or "none"
    calc,       \* the calculator object under test (method-call specification)
    built,      \* the fields calc was constructed with
    calls       \* the method calls made on calc so far: <<method, result>>

vars == <<packages, idx, pc, training, stdout, exc, calc, built, calls>>

driverVars == <<packages, idx, pc, training, stdout, exc>>
calcVars == <<calc, built, calls>>

----------------------------------------------------------------------------
(* Bounds of the model *)

MaxPackages == 2     \* longest input table explored beside the source's own
MaxSmallAction == 2  \* small action counts explored are 0..MaxSmallAction thousands
MaxDurNum == 2       \* durations explored are n/d hours, n in 0..MaxDurNum
MaxDurDen == 2       \*                              and d in 1..MaxDurDen
MaxCalls == 2        \* method calls made on one calculator

----------------------------------------------------------------------------
(* Arithmetic of Python numbers *)

Abs(x) == IF x < 0 THEN -x ELSE x

\* The operations are functions of their operands' values, so that an
\* operand is evaluated once however often the operation reads it.

GCDF[p \in Nat \X Nat] ==
    IF p[2] = 0 THEN p[1] ELSE GCDF[<<p[2], p[1] % p[2]>>]

GCD(a, b) == GCDF[<<a, b>>]

\* the number n/d in lowest terms with a positive denominator
RatF[p \in Int \X Int] ==
    LET g == GCD(Abs(p[1]), Abs(p[2]))
        s == IF p[2] < 0 THEN -1 ELSE 1
    IN  [n |-> s * (p[1] \div g), d |-> s * (p[2] \div g)]

Rat(n, d) == RatF[<<n, d>>]

Num(i) == [n |-> i, d |-> 1]

Number == [n : Int, d : Int]

ZeroDivisionError == [n |-> 0, d |-> 0]

Raised(x) == x.d = 0

AddF[p \in Number \X Number] ==
    LET x == p[1]
        y == p[2]
        g == GCD(x.d, y.d)
    IN  IF Raised(x) \/ Raised(y) THEN ZeroDivisionError
        ELSE Rat(x.n * (y.d \div g) + y.n * (x.d \div g), (x.d \div g) * y.d)

\* x + y
Add(x, y) == AddF[<<x, y>>]

MulF[p \in Number \X Number] ==
    LET x == p[1]
        y == p[2]
        a == Rat(x.n, y.d)
        b == Rat(y.n, x.d)
    IN  IF Raised(x) \/ Raised(y) THEN ZeroDivisionError
        ELSE Rat(a.n * b.n, a.d * b.d)

\* x * y
Mul(x, y) == MulF[<<x, y>>]

DivF[p \in Number \X Number] ==
    LET x == p[1]
        y == p[2]
    IN  IF Raised(x) \/ Raised(y) \/ y.n = 0 THEN ZeroDivisionError
        ELSE Mul(x, Rat(y.d, y.n))

\* x / y: Python raises ZeroDivisionError when y is zero
Div(x, y) == DivF[<<x, y>>]

SquareF[x \in Number] == Mul(x, x)

\* x ** 2
Square(x) == SquareF[x]

----------------------------------------------------------------------------
(* class Training and its subclasses *)

None == [cls |-> "NoneType"]

M_IN_KM == 1000
MIN_IN_HOUR == 60
CM_IN_M == 100
CALORIES_MEAN_SPEED_MULTIPLIER_RUNNING == 18
CALORIES_MEAN_SPEED_SHIFT_SWIMMING == 2

Training_LEN_STEP == Rat(65, 100)
Swimming_LEN_STEP == Rat(138, 100)
CALORIES_MEAN_SPEED_SHIFT_RUNNING == Rat(179, 100)
CALORIES_MEAN_SPEED_MULTIPLIER_WALKING == Rat(35, 1000)
CALORIES_MEAN_SPEED_SHIFT_WALKING == Rat(29, 1000)
KMH_IN_MS == Div(Num(1000), Num(3600))
CALORIES_MEAN_SPEED_MULTIPLIER_SWIMMING == Rat(11, 10)

\* self.LEN_STEP: Swimming overrides the class attribute of Training
LEN_STEP(self) ==
    IF self.cls = "Swimming" THEN Swimming_LEN_STEP ELSE Training_LEN_STEP

\* Training.__init__, inherited unchanged by Running
Running_init(action, duration, weight) ==
    [cls |-> "Running", action |-> action, duration |-> duration,
     weight |-> weight]

SportsWalking_init(action, duration, weight, height) ==
    [cls |-> "SportsWalking", action |-> action, duration |-> duration,
     weight |-> weight, height |-> height]

\* a faulty Swimming.__init__: the two pool arguments stored in each
\* other's field
Swimming_init_swapped(action, duration, weight, length_pool, count_pool) ==
    [cls |-> "Swimming", action |-> action, duration |-> duration,
     weight |-> weight, length_pool |-> count_pool,
     count_pool |-> length_pool]

Swimming_init(action, duration, weight, length_pool, count_pool) ==
    [cls |-> "Swimming", action |-> action, duration |-> duration,
     weight |-> weight, length_pool |-> length_pool,
     count_pool |-> count_pool]

\* a faulty get_distance: "-" typed for "*"
Training_get_distance_minus(self) ==
    Div(Add(self.action, Mul(Num(-1), LEN_STEP(self))), Num(M_IN_KM))

Training_get_distance(self) ==
    Div(Mul(self.action, LEN_STEP(self)), Num(M_IN_KM))

Swimming_get_distance(self) ==
    Div(Mul(self.action, LEN_STEP(self)), Num(M_IN_KM))

\* self.get_distance(): dispatch on the class of self
get_distance(self) ==
    IF self.cls = "Swimming" THEN Swimming_get_distance(self)
    ELSE Training_get_distance(self)

Training_get_mean_speed(self) ==
    Div(get_distance(self), self.duration)

\* a faulty Swimming: get_mean_speed not overridden, the inherited one runs
Swimming_get_mean_speed_inherited(self) ==
    Div(get_distance(self), self.duration)

Swimming_get_mean_speed(self) ==
    Div(Div(Mul(self.length_pool, self.count_pool), Num(M_IN_KM)),
        self.duration)

\* self.get_mean_speed(): dispatch on the class of self
get_mean_speed(self) ==
    IF self.cls = "Swimming" THEN Swimming_get_mean_speed(self)
    ELSE Training_get_mean_speed(self)

\* a faulty Running.get_spent_calories: the duration left in hours
Running_get_spent_calories_hours(self) ==
    Mul(Div(Mul(Add(Mul(Num(CALORIES_MEAN_SPEED_MULTIPLIER_RUNNING),
                        get_mean_speed(self)),
                    CALORIES_MEAN_SPEED_SHIFT_RUNNING),
                self.weight),
            Num(M_IN_KM)),
        self.duration)

Running_get_spent_calories(self) ==
    Mul(Div(Mul(Add(Mul(Num(CALORIES_MEAN_SPEED_MULTIPLIER_RUNNING),
                        get_mean_speed(self)),
                    CALORIES_MEAN_SPEED_SHIFT_RUNNING),
                self.weight),
            Num(M_IN_KM)),
        Mul(self.duration, Num(MIN_IN_HOUR)))

SportsWalking_get_spent_calories(self) ==
    Mul(Add(Mul(CALORIES_MEAN_SPEED_SHIFT_WALKING, self.weight),
            Mul(Mul(Div(Square(Mul(get_mean_speed(self), KMH_IN_MS)),
                        Div(self.height, Num(CM_IN_M))),
                    CALORIES_MEAN_SPEED_SHIFT_WALKING),
                self.weight)),
        Mul(self.duration, Num(MIN_IN_HOUR)))

Swimming_get_spent_calories(self) ==
    Mul(Mul(Mul(Add(get_mean_speed(self),
                    CALORIES_MEAN_SPEED_MULTIPLIER_SWIMMING),
                Num(CALORIES_MEAN_SPEED_SHIFT_SWIMMING)),
            self.weight),
        self.duration)

\* self.get_spent_calories(): dispatch on the class of self
get_spent_calories(self) ==
    CASE self.cls = "Running" -> Running_get_spent_calories(self)
      [] self.cls = "SportsWalking" -> SportsWalking_get_spent_calories(self)
      [] self.cls = "Swimming" -> Swimming_get_spent_calories(self)

\* Training.show_training_info: the InfoMessage built from the four values;
\* a field with d = 0 means the call that computes it raised
show_training_info(self) ==
    [training_type |-> self.cls,
     duration |-> self.duration,
     distance |-> get_distance(self),
     speed |-> get_mean_speed(self),
     calories |-> get_spent_calories(self)]

\* whether building the InfoMessage raised ZeroDivisionError
InfoRaised(info) ==
    Raised(info.distance) \/ Raised(info.speed) \/ Raised(info.calories)

----------------------------------------------------------------------------
(* class InfoMessage *)

\* '{:.3f}'.format(x): the sign and the number of thousandths, rounded to
\* nearest.  On an exact tie the outcome depends on the float's binary
\* rounding error, so both neighbours are possible.
Format3F[x \in Number] ==
    LET m == Abs(x.n) * 1000
        q == m \div x.d
        r == m % x.d
        sign == IF x.n < 0 THEN "-" ELSE ""
    IN  {[sign |-> sign, thousandths |-> t] :
            t \in IF 2 * r < x.d THEN {q}
                  ELSE IF 2 * r > x.d THEN {q + 1}
                  ELSE {q, q + 1}}

Format3(x) == Format3F[x]

\* InfoMessage.get_message: the set of lines the template can render to
get_message(info) ==
    {[training_type |-> info.training_type, duration |-> du,
      distance |-> di, speed |-> sp, calories |-> ca] :
        du \in Format3(info.duration), di \in Format3(info.distance),
        sp \in Format3(info.speed), ca \in Format3(info.calories)}

----------------------------------------------------------------------------
(* read_package *)

\* the dict select_workout_type: code -> class
select_workout_type ==
    [c \in {"SWM", "RUN", "WLK"} |->
        CASE c = "SWM" -> "Swimming"
          [] c = "RUN" -> "Running"
          [] c = "WLK" -> "SportsWalking"]

\* a faulty constructor call: surplus values are dropped silently
Construct_truncating(cls, data) ==
    CASE cls = "Running" ->
            IF Len(data) >= 3
            THEN [raised |-> "none",
                  ret |-> Running_init(data[1], data[2], data[3])]
            ELSE [raised |-> "TypeError", ret |-> None]
      [] cls = "SportsWalking" ->
            IF Len(data) >= 4
            THEN [raised |-> "none",
                  ret |-> SportsWalking_init(data[1], data[2], data[3],
                                             data[4])]
            ELSE [raised |-> "TypeError", ret |-> None]
      [] cls = "Swimming" ->
            IF Len(data) >= 5
            THEN [raised |-> "none",
                  ret |-> Swimming_init(data[1], data[2], data[3], data[4],
                                        data[5])]
            ELSE [raised |-> "TypeError", ret |-> None]

\* cls(*data): the constructor call with the values unpacked positionally;
\* a wrong number of values raises TypeError
Construct(cls, data) ==
    CASE cls = "Running" ->
            IF Len(data) = 3
            THEN [raised |-> "none",
                  ret |-> Running_init(data[1], data[2], data[3])]
            ELSE [raised |-> "TypeError", ret |-> None]
      [] cls = "SportsWalking" ->
            IF Len(data) = 4
            THEN [raised |-> "none",
                  ret |-> SportsWalking_init(data[1], data[2], data[3],
                                             data[4])]
            ELSE [raised |-> "TypeError", ret |-> None]
      [] cls = "Swimming" ->
            IF Len(data) = 5
            THEN [raised |-> "none",
                  ret |-> Swimming_init(data[1], data[2], data[3], data[4],
                                        data[5])]
            ELSE [raised |-> "TypeError", ret |-> None]

\* the line printed by the except clause: the text (here transliterated)
\* and str(K), which is the repr of the missing key
UnknownLine(workout_type) ==
    [text |-> "Neizvestnyj vid trenirovki", K |-> <<"'", workout_type, "'">>]

\* a faulty read_package: no except clause, the KeyError escapes
read_package_no_handler(workout_type, data) ==
    IF workout_type \in DOMAIN select_workout_type
    THEN LET r == Construct(select_workout_type[workout_type], data)
         IN  [raised |-> r.raised, ret |-> r.ret, out |-> <<>>]
    ELSE [raised |-> "KeyError", ret |-> None, out |-> <<>>]

\* read_package: what it raises, what it returns and what it prints
read_package(workout_type, data) ==
    IF workout_type \in DOMAIN select_workout_type
    THEN LET r == Construct(select_workout_type[workout_type], data)
         IN  [raised |-> r.raised, ret |-> r.ret, out |-> <<>>]
    ELSE [raised |-> "none", ret |-> None,
          out |-> <<UnknownLine(workout_type)>>]

----------------------------------------------------------------------------
(* The driver: for workout_type, data in packages: read_package, main *)

\* a faulty table: the first two entries exchanged
Packages_reordered ==
    << <<"RUN", <<Num(15000), Num(1), Num(75)>> >>,
       <<"SWM", <<Num(720), Num(1), Num(80), Num(25), Num(40)>> >>,
       <<"WLK", <<Num(9000), Num(1), Num(75), Num(180)>> >> >>

\* the table of the source
Packages ==
    << <<"SWM", <<Num(720), Num(1), Num(80), Num(25), Num(40)>> >>,
       <<"RUN", <<Num(15000), Num(1), Num(75)>> >>,
       <<"WLK", <<Num(9000), Num(1), Num(75), Num(180)>> >> >>

\* the entries the explored tables are made of: those of the source, an
\* unknown code, too many and too few values, a zero duration, and a
\* distance half way between two renderings
Entries ==
    {Packages[i] : i \in 1..Len(Packages)} \cup
    { <<"XYZ", <<Num(1), Num(2), Num(3)>> >>,
      <<"RUN", <<Num(15000), Num(1), Num(75), Num(180)>> >>,
      <<"WLK", <<Num(9000), Num(1), Num(75)>> >>,
      <<"RUN", <<Num(15000), Num(0), Num(75)>> >>,
      <<"RUN", <<Num(10), Num(1), Num(75)>> >> }

\* the tables explored: the one of the source and every short one
Tables == {Packages} \cup UNION {[1..n -> Entries] : n \in 0..MaxPackages}

Init ==
    /\ packages \in Tables
    /\ idx = 1
    /\ pc = "read"
    /\ training = None
    /\ stdout = <<>>
    /\ exc = "none"
    /\ calc = None
    /\ built = None
    /\ calls = <<>>

\* training = read_package(workout_type, data)
ReadPackage ==
    /\ pc = "read"
    /\ idx <= Len(packages)
    /\ LET r == read_package(packages[idx][1], packages[idx][2])
       IN  IF r.raised = "none"
           THEN /\ training' = r.ret
                /\ stdout' = stdout \o r.out
                /\ pc' = "main"
                /\ exc' = exc
           ELSE /\ exc' = r.raised
                /\ pc' = "crashed"
                /\ UNCHANGED <<training, stdout>>
    /\ UNCHANGED <<packages, idx, calcVars>>

\* main(training): None has no show_training_info (AttributeError); a
\* division by zero in the formulas ends the program too
Main ==
    /\ pc = "main"
    /\ IF training = None
       THEN /\ exc' = "AttributeError"
            /\ pc' = "crashed"
            /\ UNCHANGED <<idx, stdout>>
       ELSE \E info \in {show_training_info(training)} :
                IF InfoRaised(info)
                THEN /\ exc' = "ZeroDivisionError"
                     /\ pc' = "crashed"
                     /\ UNCHANGED <<idx, stdout>>
                ELSE /\ \E line \in get_message(info) :
                            stdout' = Append(stdout, line)
                     /\ idx' = idx + 1
                     /\ pc' = "read"
                     /\ exc' = exc
    /\ UNCHANGED <<packages, training, calcVars>>

\* the for loop is exhausted: the program ends with exit code 0
LoopExit ==
    /\ pc = "read"
    /\ idx > Len(packages)
    /\ pc' = "done"
    /\ UNCHANGED <<packages, idx, training, stdout, exc, calcVars>>

Next == ReadPackage \/ Main \/ LoopExit

Spec == Init /\ [][Next]_vars

\* the interpreter runs the loop to its end: it never stops between steps
FairSpec == Spec /\ WF_vars(Next)

----------------------------------------------------------------------------
(* Method calls on one calculator, any number of times in any order *)

Actions ==
    {Num(1000 * k) : k \in (-1)..MaxSmallAction} \cup
    {Num(720), Num(9000), Num(15000)}
Durations == {Rat(n, d) : n \in 0..MaxDurNum, d \in 1..MaxDurDen}
Weights == {Num(75), Num(80)}
Heights == {Num(0), Num(180)}
PoolLengths == {Num(25), Num(50)}
PoolCounts == {Num(0), Num(40)}

Calculators ==
    {Running_init(a, t, w) : a \in Actions, t \in Durations, w \in Weights}
    \cup
    {SportsWalking_init(a, t, w, h) :
        a \in Actions, t \in Durations, w \in Weights, h \in Heights}
    \cup
    {Swimming_init(a, t, w, l, c) :
        a \in Actions, t \in Durations, w \in Weights, l \in PoolLengths,
        c \in PoolCounts}

InitCalc ==
    /\ calc \in Calculators
    /\ built = calc
    /\ calls = <<>>
    /\ packages = <<>>
    /\ idx = 1
    /\ pc = "done"
    /\ training = None
    /\ stdout = <<>>
    /\ exc = "none"

\* a faulty get_distance: it converts self.action to kilometres in place
CallGetDistance_in_place ==
    /\ Len(calls) < MaxCalls
    /\ calls' = Append(calls, [method |-> "get_distance",
                               ret |-> get_distance(calc)])
    /\ calc' = [calc EXCEPT !.action = get_distance(calc)]
    /\ UNCHANGED <<built, driverVars>>

CallGetDistance ==
    /\ Len(calls) < MaxCalls
    /\ calls' = Append(calls, [method |-> "get_distance",
                               ret |-> get_distance(calc)])
    /\ UNCHANGED <<calc, built, driverVars>>

CallGetMeanSpeed ==
    /\ Len(calls) < MaxCalls
    /\ calls' = Append(calls, [method |-> "get_mean_speed",
                               ret |-> get_mean_speed(calc)])
    /\ UNCHANGED <<calc, built, driverVars>>

CallGetSpentCalories ==
    /\ Len(calls) < MaxCalls
    /\ calls' = Append(calls, [method |-> "get_spent_calories",
                               ret |-> get_spent_calories(calc)])
    /\ UNCHANGED <<calc, built, driverVars>>

CallShowTrainingInfo ==
    /\ Len(calls) < MaxCalls
    /\ calls' = Append(calls, [method |-> "show_training_info",
                               ret |-> show_training_info(calc)])
    /\ UNCHANGED <<calc, built, driverVars>>

NextCalc ==
    \/ CallGetDistance
    \/ CallGetMeanSpeed
    \/ CallGetSpentCalories
    \/ CallShowTrainingInfo

SpecCalc == InitCalc /\ [][NextCalc]_vars

----------------------------------------------------------------------------
(* Vocabulary of the properties *)

Zero == Num(0)
Less(x, y) == x.n * y.d < y.n * x.d
Positive(x) == ~Raised(x) /\ x.n > 0
NonNegative(x) == ~Raised(x) /\ x.n >= 0

\* the calls of method m made so far
CallsOf(m) == {i \in DOMAIN calls : calls[i].method = m}

\* the entry the driver is at
AtEntry == idx \in DOMAIN packages
CurCode == packages[idx][1]
CurData == packages[idx][2]
Recognized(code) == code \in {"SWM", "RUN", "WLK"}

\* a rendered summary line, the numbers in thousandths
Line(type, du, di, sp, ca) ==
    [training_type |-> type,
     duration |-> [sign |-> "", thousandths |-> du],
     distance |-> [sign |-> "", thousandths |-> di],
     speed |-> [sign |-> "", thousandths |-> sp],
     calories |-> [sign |-> "", thousandths |-> ca]]

----------------------------------------------------------------------------
(* C1: the walking calories *)

\* the formula of the claim: weight-only term 0.035, speed-squared term 0.029
ClaimedWalkingCalories(action, duration, weight, height) ==
    LET mean_speed == Div(Div(Mul(action, Rat(65, 100)), Num(1000)), duration)
    IN  Mul(Add(Mul(Rat(35, 1000), weight),
                Mul(Mul(Div(Square(Mul(mean_speed, Rat(1000, 3600))),
                            Div(height, Num(100))),
                        Rat(29, 1000)),
                    weight)),
            Mul(duration, Num(60)))

\* C1: for every SportsWalking calculator with duration > 0 and height > 0,
\* get_spent_calories() equals (0.035 * weight + (mean_speed * 1000/3600)^2
\* / (height / 100) * 0.029 * weight) * (duration * 60).
C1_WalkingCalories ==
    \A i \in CallsOf("get_spent_calories") :
        (calc.cls = "SportsWalking" /\ Positive(calc.duration)
            /\ Positive(calc.height))
        => calls[i].ret = ClaimedWalkingCalories(calc.action, calc.duration,
                                                 calc.weight, calc.height)

----------------------------------------------------------------------------
(* C2: an unknown code in the driver loop *)

\* C2: the driver loop does not crash at an entry whose code is not one of
\* SWM, RUN, WLK (it goes on to the later entries).
C2_UnknownCodeDoesNotCrash ==
    (AtEntry /\ ~Recognized(CurCode)) => pc # "crashed"

----------------------------------------------------------------------------
(* C3: read_package on an unknown code *)

\* C3: called with a code outside {SWM, RUN, WLK}, read_package prints one
\* line that names the code, raises nothing and returns None.
C3_UnknownCodeReported ==
    [][(pc = "read" /\ AtEntry /\ ~Recognized(CurCode))
        => /\ pc' = "main"
           /\ exc' = "none"
           /\ training' = None
           /\ Len(stdout') = Len(stdout) + 1
           /\ SubSeq(stdout', 1, Len(stdout)) = stdout
           /\ \E j \in DOMAIN stdout'[Len(stdout')].K :
                  stdout'[Len(stdout')].K[j] = CurCode]_vars

C3_Witness ==
    /\ pc = "main"
    /\ AtEntry
    /\ ~Recognized(CurCode)
    /\ training = None
    /\ Len(stdout) > 0

----------------------------------------------------------------------------
(* C4: a wrong number of values *)

ClaimedArity(code) ==
    CASE code = "RUN" -> 3 [] code = "WLK" -> 4 [] code = "SWM" -> 5

\* C4: for a recognized code and a number of values other than the kind
\* expects, read_package ends in TypeError at the caller: nothing is
\* returned (training keeps its value) and nothing is printed.
C4_ArityMismatchRaises ==
    [][(pc = "read" /\ AtEntry /\ Recognized(CurCode)
            /\ Len(CurData) # ClaimedArity(CurCode))
        => /\ pc' = "crashed"
           /\ exc' = "TypeError"
           /\ training' = training
           /\ stdout' = stdout]_vars

C4_Witness ==
    /\ pc = "crashed"
    /\ exc = "TypeError"
    /\ AtEntry
    /\ Recognized(CurCode)
    /\ Len(CurData) # ClaimedArity(CurCode)

----------------------------------------------------------------------------
(* C5: the dispatch table and the positional binding *)

\* C5: once read_package has returned, SWM gave a Swimming, RUN a Running
\* and WLK a SportsWalking calculator whose fields are the values in
\* order, and any other code gave None.
C5_DispatchBindsPositionally ==
    (pc = "main" /\ AtEntry) =>
        /\ CurCode = "RUN" =>
              /\ training.cls = "Running"
              /\ DOMAIN training = {"cls", "action", "duration", "weight"}
              /\ training.action = CurData[1]
              /\ training.duration = CurData[2]
              /\ training.weight = CurData[3]
        /\ CurCode = "WLK" =>
              /\ training.cls = "SportsWalking"
              /\ training.action = CurData[1]
              /\ training.duration = CurData[2]
              /\ training.weight = CurData[3]
              /\ training.height = CurData[4]
        /\ CurCode = "SWM" =>
              /\ training.cls = "Swimming"
              /\ training.action = CurData[1]
              /\ training.duration = CurData[2]
              /\ training.weight = CurData[3]
              /\ training.length_pool = CurData[4]
              /\ training.count_pool = CurData[5]
        /\ ~Recognized(CurCode) => training = None

C5_Witness ==
    /\ pc = "main"
    /\ AtEntry
    /\ CurCode = "SWM"
    /\ training.cls = "Swimming"
    /\ training.length_pool = Num(25)
    /\ training.count_pool = Num(40)

----------------------------------------------------------------------------
(* C6: the summary of a run *)

\* the summary the claim describes for a Running calculator
ClaimedRunningSummary(action, duration, weight) ==
    LET distance == Div(Mul(action, Rat(65, 100)), Num(1000))
        mean_speed == Div(distance, duration)
    IN  [training_type |-> "Running",
         duration |-> duration,
         distance |-> distance,
         speed |-> mean_speed,
         calories |-> Mul(Div(Mul(Add(Mul(Num(18), mean_speed),
                                      Rat(179, 100)),
                                  weight),
                              Num(1000)),
                          Mul(duration, Num(60)))]

DemoRun == Running_init(Num(15000), Num(1), Num(75))

RunningSummaryFollowsFormulas ==
    \A i \in CallsOf("show_training_info") :
        (calc.cls = "Running" /\ Positive(calc.duration))
        => calls[i].ret = ClaimedRunningSummary(calc.action, calc.duration,
                                                calc.weight)

\* C6 as amended: for every Running calculator with duration > 0,
\* show_training_info() gives type "Running", the input duration, distance
\* action * 0.65 / 1000, speed distance / duration and calories
\* (18 * speed + 1.79) * weight / 1000 * (duration * 60); for 15000, 1, 75
\* that is distance 9.75, speed 9.75 and calories 797.805.
C6_RunningSummary ==
    /\ RunningSummaryFollowsFormulas
    /\ \A i \in CallsOf("show_training_info") :
          calc = DemoRun =>
              /\ calls[i].ret.distance = Rat(975, 100)
              /\ calls[i].ret.speed = Rat(975, 100)
              /\ calls[i].ret.calories = Rat(797805, 1000)

\* C6 as stated: the same, with calories 798.0525 for 15000, 1, 75.
C6_Original ==
    /\ RunningSummaryFollowsFormulas
    /\ \A i \in CallsOf("show_training_info") :
          calc = DemoRun =>
              /\ calls[i].ret.distance = Rat(975, 100)
              /\ calls[i].ret.speed = Rat(975, 100)
              /\ calls[i].ret.calories = Rat(7980525, 10000)

C6_Witness ==
    /\ calc = DemoRun
    /\ CallsOf("show_training_info") # {}

----------------------------------------------------------------------------
(* C7: the swimming formulas *)

DemoSwim == Swimming_init(Num(720), Num(1), Num(80), Num(25), Num(40))

\* C7: for every Swimming calculator with duration > 0, distance is
\* action * 1.38 / 1000, mean speed is length_pool * count_pool / 1000 /
\* duration and calories are (mean_speed + 1.1) * 2 * weight * duration;
\* for 720, 1, 80, 25, 40 that is 0.9936, 1.0 and 336.0.
C7_SwimmingFormulas ==
    (calc.cls = "Swimming" /\ Positive(calc.duration)) =>
        LET distance == Div(Mul(calc.action, Rat(138, 100)), Num(1000))
            mean_speed == Div(Div(Mul(calc.length_pool, calc.count_pool),
                                  Num(1000)),
                              calc.duration)
            calories == Mul(Mul(Mul(Add(mean_speed, Rat(11, 10)), Num(2)),
                                calc.weight),
                            calc.duration)
        IN  /\ \A i \in CallsOf("get_distance") :
                  /\ calls[i].ret = distance
                  /\ calc = DemoSwim => calls[i].ret = Rat(9936, 10000)
            /\ \A i \in CallsOf("get_mean_speed") :
                  /\ calls[i].ret = mean_speed
                  /\ calc = DemoSwim => calls[i].ret = Num(1)
            /\ \A i \in CallsOf("get_spent_calories") :
                  /\ calls[i].ret = calories
                  /\ calc = DemoSwim => calls[i].ret = Num(336)

C7_Witness ==
    /\ calc = DemoSwim
    /\ CallsOf("get_mean_speed") # {}
    /\ CallsOf("get_spent_calories") # {}

----------------------------------------------------------------------------
(* C8: the methods are pure *)

\* C8: however often and in whatever order the four methods are called on
\* a calculator, each method returns the same value every time and every
\* field of the calculator keeps the value it was constructed with.
C8_MethodsArePure ==
    /\ calc = built
    /\ \A i, j \in DOMAIN calls :
          calls[i].method = calls[j].method => calls[i].ret = calls[j].ret

C8_Witness ==
    /\ Len(calls) >= 2
    /\ calls[1].method = calls[2].method
    /\ calc.action # Zero

----------------------------------------------------------------------------
(* C9: distance and speed are non-negative *)

ValidRecord(self) ==
    /\ NonNegative(self.action)
    /\ Positive(self.duration)
    /\ Positive(self.weight)
    /\ self.cls = "Swimming" =>
          Positive(self.length_pool) /\ NonNegative(self.count_pool)

\* C9: for a calculator of any kind built from a valid record,
\* get_distance() >= 0 and get_mean_speed() >= 0.
C9_DistanceAndSpeedNonNegative ==
    ValidRecord(calc) =>
        \A i \in CallsOf("get_distance") \cup CallsOf("get_mean_speed") :
            ~Raised(calls[i].ret) /\ ~Less(calls[i].ret, Zero)

C9_Witness ==
    /\ ValidRecord(calc)
    /\ calc.action = Zero
    /\ CallsOf("get_distance") # {}
    /\ CallsOf("get_mean_speed") # {}

----------------------------------------------------------------------------
(* C10: the run of the driver on the table of the source *)

\* the three lines the program prints
DemoLines ==
    << Line("Swimming", 1000, 994, 1000, 336000),
       Line("Running", 1000, 9750, 9750, 797805),
       Line("SportsWalking", 1000, 5850, 5850, 321945) >>

\* the entries are taken in table order, each dispatched before its line
\* is printed, and nothing else is printed
DemoInOrder ==
    /\ pc # "crashed"
    /\ exc = "none"
    /\ idx \in 1..(Len(DemoLines) + 1)
    /\ stdout = SubSeq(DemoLines, 1, idx - 1)
    /\ pc = "main" => training.cls = DemoLines[idx].training_type
    /\ pc = "done" => idx = Len(DemoLines) + 1

\* C10: on its three-entry table the driver takes the entries in order,
\* dispatching then printing each, prints exactly the three lines in the
\* order Swimming, Running, SportsWalking, and then ends normally.
C10_DemoRun ==
    (packages = Packages) =>
        /\ []DemoInOrder
        /\ <>[](pc = "done" /\ exc = "none" /\ stdout = DemoLines)

C10_Witness ==
    /\ packages = Packages
    /\ pc = "done"
    /\ exc = "none"
    /\ Len(stdout) = 3
    /\ stdout[1].training_type = "Swimming"
    /\ stdout[2].training_type = "Running"
    /\ stdout[3].training_type = "SportsWalking"

====
